---- MODULE Spec2Model ----
(***************************************************************************)
(* Model of the minispec driver (src/minispec.py): the UDP discovery loop  *)
(* find_devices, the Minispec session with its marker-await receive loop,  *)
(* and the arithmetic of spectrum() and px_to_wavelength().  Byte strings   *)
(* are sequences of one-character strings; wall-clock time is a whole      *)
(* number of seconds in find_devices and of clock ticks in the session.    *)
(***************************************************************************)
EXTENDS Integers, Sequences, FiniteSets, TLC

VARIABLES
    \* ---- find_devices (one call) ----
    fd_pc,            \* "loop" | "returned" | "raised"
    find_first,       \* argument find_first
    sock_timeout,     \* argument sock_timeout
    search_timeout,   \* argument search_timeout
    udp_sock,         \* "open" | "closed": the discovery socket
    fd_now,           \* time.time() - tstart
    spectrometers,    \* the result set built by the loop
    fd_error,         \* "none" | "timeout" | "ValueError": the exception that ended the call
    received,         \* history: every (address, data) recvfrom returned in this call
    nrecv,            \* history: number of recvfrom calls that returned a datagram
    last_rx,          \* history: the last (address, data) returned, or <<>>
    prev_set,         \* history: spectrometers as it was before the last datagram was handled
    \* ---- Minispec (one object, one connection at a time) ----
    ssl_sock,         \* self.ssl_sock: "unset" | "unconnected" | "connected" | "closed"
    sock,             \* the plain socket of the last open(): "none" | "open" | "closed"
    stream,           \* the records the device has written that no recv has returned yet
    origin,           \* history: for each record of stream, the call whose command it answers
    dark,             \* self._dark: None or a frame
    calibration,      \* self._calibration
    pc,               \* "idle" | "recv_first" | "recv_loop": position of the running call
    call,             \* the running call, or the last one when pc = "idle"
    arg,              \* its argument
    phase,            \* raw_spectrum: 1 = awaiting spectrum_complete, 2 = awaiting spectrum:
    magic,            \* _receive_message: magic
    strlen,           \* _receive_message: strlen
    msg,              \* _receive_message: msg
    now,              \* time.time(), in ticks, counted from the start of the call
    tstart,           \* _receive_message: tstart
    rm_called,        \* history: time.time() when _receive_message was called
    sent,             \* history: the commands the call has handed to ssl_sock.send
    result,           \* how the last call ended: [how, err, val, printed]
    rm_ret,           \* history: how the last _receive_message ended:
                      \* [how, val, magic, took, from]
    rm_first,         \* history: the chunk its first recv returned
    seen,             \* history: the magics found in a chunk received by the call
    answer,           \* history: what the device wrote last: <<records, response>>
    ncalls,           \* history: calls made so far
    session           \* history: "open" from an open() that got through to the next
                      \* release() or open() that replaces self.ssl_sock, else "closed"

fvars == <<fd_pc, find_first, sock_timeout, search_timeout, udp_sock, fd_now,
           spectrometers, fd_error, received, nrecv, last_rx, prev_set>>

svars == <<ssl_sock, sock, stream, origin, dark, calibration, pc, call, arg, phase, magic,
           strlen, msg, now, tstart, rm_called, sent, result, rm_ret, rm_first, seen,
           answer, ncalls, session>>

vars == <<fvars, svars>>

(***************************************************************************)
(* Byte-string helpers, computed as Python computes them.                  *)
(***************************************************************************)

\* s[a:b] with 0-based, end-exclusive indices (a, b >= 0)
Slice(s, a, b) ==
    LET hi == IF b > Len(s) THEN Len(s) ELSE b
    IN  IF a >= hi THEN <<>> ELSE SubSeq(s, a + 1, hi)

\* s[a:]
SliceFrom(s, a) == Slice(s, a, Len(s))

\* does needle occur in hay at 0-based offset i
OccursAt(hay, needle, i) ==
    /\ i + Len(needle) <= Len(hay)
    /\ SubSeq(hay, i + 1, i + Len(needle)) = needle

\* bytes.find(needle): the lowest offset of needle in hay, or -1
Find(hay, needle) ==
    LET hits == {i \in 0..Len(hay) : OccursAt(hay, needle, i)}
    IN  IF hits = {} THEN -1
        ELSE CHOOSE i \in hits : \A j \in hits : i <= j

\* needle in hay
Contains(hay, needle) == Find(hay, needle) # -1

\* bytes.split(sep) for a one-byte separator: the list of fields
RECURSIVE Split(_, _)
Split(s, sep) ==
    LET i == Find(s, <<sep>>)
    IN  IF i = -1 THEN <<s>>
        ELSE <<Slice(s, 0, i)>> \o Split(SliceFrom(s, i + 1), sep)

\* n copies of the byte c
RECURSIVE Rep(_, _)
Rep(c, n) == IF n <= 0 THEN <<>> ELSE <<c>> \o Rep(c, n - 1)

(***************************************************************************)
(* find_devices                                                            *)
(***************************************************************************)

MaxSockTimeout == 2      \* sock_timeout ranges over 1..MaxSockTimeout
MaxSearchTimeout == 2    \* search_timeout ranges over 0..MaxSearchTimeout
MaxRecv == 2             \* datagrams received in one call

RecvBufSize == 33        \* recvfrom(33)
MarkerLen == 7           \* iface[7:]

Marker == <<"m", "s", "p", "1", "0", "0", "0">>

Addresses == {"10.0.0.1", "10.0.0.2"}

\* the interface names and serials the senders put into their datagrams
Ifaces == {<<>>, <<"w">>}
Serials == {<<>>, <<"7">>}

\* the bytes that follow the marker: no field separator, one, or two
Tails ==
    Ifaces
    \cup {i \o <<",">> \o s : i \in Ifaces, s \in Serials}
    \cup {<<"w", ",", "7", ",", "x">>}

\* what may arrive on the discovery port: announcements, announcements cut
\* short, an announcement longer than the receive buffer, and foreign traffic
Datagrams ==
    {Marker \o t : t \in Tails}
    \cup {Marker \o <<"w", ",">> \o Rep("7", RecvBufSize - MarkerLen)}
    \cup {<<"x">> \o Marker \o <<"w", ",", "7">>, <<"w", ",", "7">>, <<>>}

\* sock.recvfrom(33): at most 33 bytes of the datagram are returned
Recvfrom(dgram) == Slice(dgram, 0, RecvBufSize)

\* data.find(b'msp1000') == 0
IsAnnouncement(data) == Find(data, Marker) = 0

\* data.split(b',')[:2]
FirstTwo(data) == Slice(Split(data, ","), 0, 2)

\* iface, serial = ... : the unpacking succeeds only with exactly two values
Unpacks(data) == Len(FirstTwo(data)) = 2

\* Entry with the prefix stripped one byte short
EntryStripShort(address, data) ==
    <<address, SliceFrom(FirstTwo(data)[1], MarkerLen - 1), FirstTwo(data)[2]>>

\* (address, iface[7:], serial)
Entry(address, data) ==
    <<address, SliceFrom(FirstTwo(data)[1], MarkerLen), FirstTwo(data)[2]>>

\* BreaksOnFirst that leaves the loop whatever find_first is
BreaksAlways(ff) == TRUE

\* if find_first is True: break
BreaksOnFirst(ff) == ff = TRUE

\* while (time.time() - tstart) < search_timeout
InWindow(elapsed, window) == elapsed < window

\* sock.close() is the statement after the loop: it runs when the loop ends
\* by its condition or by break, and not when an exception leaves the function
SockAfter(how) == IF how = "returned" THEN "closed" ELSE "open"

FdInit ==
    /\ fd_pc = "loop"
    /\ find_first \in BOOLEAN
    /\ sock_timeout \in 1..MaxSockTimeout
    /\ search_timeout \in 0..MaxSearchTimeout
    /\ udp_sock = "open"
    /\ fd_now = 0
    /\ spectrometers = {}
    /\ fd_error = "none"
    /\ received = {}
    /\ nrecv = 0
    /\ last_rx = <<>>
    /\ prev_set = {}

\* the loop condition fails: sock.close(); return spectrometers
FdWindowElapsed ==
    /\ fd_pc = "loop"
    /\ ~InWindow(fd_now, search_timeout)
    /\ fd_pc' = "returned"
    /\ udp_sock' = SockAfter("returned")
    /\ UNCHANGED <<find_first, sock_timeout, search_timeout, fd_now, spectrometers,
                   fd_error, received, nrecv, last_rx, prev_set>>
    /\ UNCHANGED svars

\* one iteration in which recvfrom returns a datagram after waiting d seconds
FdRecvDatagram ==
    /\ fd_pc = "loop"
    /\ InWindow(fd_now, search_timeout)
    /\ nrecv < MaxRecv
    /\ \E d \in 0..(sock_timeout - 1), address \in Addresses, dgram \in Datagrams :
        LET data == Recvfrom(dgram) IN
        /\ fd_now' = fd_now + d
        /\ received' = received \cup {<<address, data>>}
        /\ nrecv' = nrecv + 1
        /\ last_rx' = <<address, data>>
        /\ prev_set' = spectrometers
        /\ IF ~IsAnnouncement(data)
           THEN /\ UNCHANGED <<spectrometers, fd_pc, fd_error, udp_sock>>
           ELSE IF ~Unpacks(data)
           THEN /\ fd_pc' = "raised"
                /\ fd_error' = "ValueError"
                /\ udp_sock' = SockAfter("raised")
                /\ UNCHANGED spectrometers
           ELSE /\ spectrometers' = spectrometers \cup {Entry(address, data)}
                /\ IF BreaksOnFirst(find_first)
                   THEN /\ fd_pc' = "returned"
                        /\ udp_sock' = SockAfter("returned")
                   ELSE UNCHANGED <<fd_pc, udp_sock>>
                /\ UNCHANGED fd_error
    /\ UNCHANGED <<find_first, sock_timeout, search_timeout>>
    /\ UNCHANGED svars

\* one iteration in which nothing arrives for sock_timeout seconds:
\* recvfrom raises socket.timeout, which nothing in find_devices catches
FdRecvTimeout ==
    /\ fd_pc = "loop"
    /\ InWindow(fd_now, search_timeout)
    /\ fd_now' = fd_now + sock_timeout
    /\ fd_pc' = "raised"
    /\ fd_error' = "timeout"
    /\ udp_sock' = SockAfter("raised")
    /\ UNCHANGED <<find_first, sock_timeout, search_timeout, spectrometers,
                   received, nrecv, last_rx, prev_set>>
    /\ UNCHANGED svars

(***************************************************************************)
(* Minispec: the session object                                            *)
(***************************************************************************)

SockTimeout == 2         \* sock.settimeout(2)
ReceiveTimeout == 5      \* _receive_message(..., timeout=5)
DefaultStrlen == 1024    \* _receive_message(..., strlen=1024)
DarkLen == 3648          \* len(spectrum) == 3648

Pixels == 2              \* samples in a raw frame, at the scale of the model (3694 in raw_spectrum)
MaxChatter == 6          \* records of chatter the device writes ahead of a response
MaxCalls == 2            \* calls made on the object in one behaviour
TicksPerSecond == 2      \* resolution of the clock
MaxIdx == 2              \* pixel indices given to px_to_wavelength

WavelengthCount == 3648  \* np.arange(3648, dtype='float32')
RawLen == 3694           \* samples of a raw frame of the detector

\* seconds as ticks of the clock
Ticks(seconds) == seconds * TicksPerSecond

\* how long a recv that returns data takes: no time, or a tick less than the
\* socket's timeout
RecvDelays == {0, Ticks(SockTimeout) - 1}

\* strlen of the spectrum: receive, 7389+9 for 3694 samples
SpectrumStrlen == 2 * Pixels + 1 + 9

MagicExposure == <<"e", "x", "p", "o", "s", "u", "r", "e", ":">>
MagicComplete == <<"s", "p", "e", "c", "t", "r", "u", "m", "_",
                   "c", "o", "m", "p", "l", "e", "t", "e">>
MagicSpectrum == <<"s", "p", "e", "c", "t", "r", "u", "m", ":">>
MagicCalibration == <<"c", "a", "l", "i", "b", "r", "a", "t", "i", "o", "n", ":">>

\* the byte values of the characters the model uses
Ord ==
    ("#" :> 35) @@ ("," :> 44) @@ ("0" :> 48) @@ ("1" :> 49) @@ ("2" :> 50) @@
    ("3" :> 51) @@ ("4" :> 52) @@ ("5" :> 53) @@ ("6" :> 54) @@ ("7" :> 55) @@
    ("8" :> 56) @@ ("9" :> 57) @@ (":" :> 58) @@ ("A" :> 65) @@ ("B" :> 66) @@
    ("_" :> 95) @@ ("a" :> 97) @@ ("b" :> 98) @@ ("c" :> 99) @@ ("e" :> 101) @@
    ("i" :> 105) @@ ("l" :> 108) @@ ("m" :> 109) @@ ("n" :> 110) @@ ("o" :> 111) @@
    ("p" :> 112) @@ ("r" :> 114) @@ ("s" :> 115) @@ ("t" :> 116) @@ ("u" :> 117) @@
    ("x" :> 120)

DigitVal ==
    ("0" :> 0) @@ ("1" :> 1) @@ ("2" :> 2) @@ ("3" :> 3) @@ ("4" :> 4) @@
    ("5" :> 5) @@ ("6" :> 6) @@ ("7" :> 7) @@ ("8" :> 8) @@ ("9" :> 9)

\* int(s) and float(s) accept s: here, a non-empty run of decimal digits
IsNumber(s) == Len(s) > 0 /\ \A i \in 1..Len(s) : s[i] \in DOMAIN DigitVal

\* the value int(s) or float(s) gives
RECURSIVE Number(_)
Number(s) ==
    IF Len(s) = 0 THEN 0
    ELSE 10 * Number(SubSeq(s, 1, Len(s) - 1)) + DigitVal[s[Len(s)]]

\* np.frombuffer(buf, dtype='uint16', count=n) raises ValueError on a buffer
\* of fewer than 2n bytes
FitsBuffer(buf, n) == Len(buf) >= 2 * n

\* np.frombuffer(buf, dtype='uint16', count=n): n little-endian samples
Frombuffer(buf, n) == [i \in 1..n |-> Ord[buf[2 * i - 1]] + 256 * Ord[buf[2 * i]]]

\* msg[9:] of the exposure getter
ExposureText(m) == SliceFrom(m, 9)

\* buffer[9:] of raw_spectrum
SpectrumBytes(m) == SliceFrom(m, 9)

\* msg.decode()[12:].split(',') of update_calibration
CalibrationFields(m) == Split(SliceFrom(m, 12), ",")

\* np.array(fields, dtype='float32') converts every field, [:4] keeps four
Coefficients(fields) == Slice([i \in 1..Len(fields) |-> Number(fields[i])], 0, 4)

\* while (magic not in msg) and (time.time()-tstart) < timeout
KeepsWaiting(m, mg, elapsed) == ~Contains(m, mg) /\ elapsed < Ticks(ReceiveTimeout)

\* if len(spectrum) == 3648
AcceptsDark(frame) == frame.len = DarkLen

RECURSIVE Power(_, _)
\* idx**i
Power(idx, i) == IF i = 0 THEN 1 ELSE idx * Power(idx, i - 1)

\* s[::-1]
Reversed(s) == [i \in 1..Len(s) |-> s[Len(s) + 1 - i]]

RECURSIVE Enumerated(_, _, _)
\* the sum, over the (i, coeff) of enumerate(coeffs) from position k on, of
\* coeff * (idx**i)
Enumerated(coeffs, idx, k) ==
    IF k > Len(coeffs) THEN 0
    ELSE coeffs[k] * Power(idx, k - 1) + Enumerated(coeffs, idx, k + 1)

\* px_to_wavelength without the [::-1]
WavelengthForward(cal, idx) == Enumerated(cal, idx, 1)

\* px_to_wavelength(idx) with self._calibration = cal
Wavelength(cal, idx) == Enumerated(Reversed(cal), idx, 1)

\* the array wavelengths returns: len entries, entry x = Wavelength(cal, x)
WavelengthArray(cal) == [len |-> WavelengthCount, cal |-> cal]

\* entry x of the array wavelengths has returned
EntryOf(w, x) == Wavelength(w.cal, x)

RECURSIVE Sum(_)
\* the sum of the values of s
Sum(s) == IF Len(s) = 0 THEN 0 ELSE s[1] + Sum(Tail(s))

\* the value the dark frame d (None, or a frame) takes off pixel i
DarkAt(d, i) == IF d = <<>> THEN 0 ELSE d[1].fill

\* spectrum() with the bias band read as spectrum_raw[17:29]
ProcessedShortBand(raw, d) ==
    LET optical == Slice(raw, 32, 3680)
        ccd_offset == Slice(raw, 17, 29)
        n == Len(ccd_offset)
        total == Sum(ccd_offset)
    IN  [den |-> n,
         num |-> [i \in 1..Len(optical) |-> n * optical[i] - total - n * DarkAt(d, i)]]

\* spectrum() on the raw frame spectrum_raw: spectrum_raw[32:3680] as floats,
\* minus spectrum_raw[17:30].mean(), minus the dark frame unless it is None.
\* A value is kept as its numerator over den = len(ccd_offset), so that the
\* mean needs no rounding.
Processed(raw, d) ==
    LET optical == Slice(raw, 32, 3680)
        ccd_offset == Slice(raw, 17, 30)
        n == Len(ccd_offset)
        total == Sum(ccd_offset)
    IN  [den |-> n,
         num |-> [i \in 1..Len(optical) |-> n * optical[i] - total - n * DarkAt(d, i)]]

\* the frame spectrum() returns in a session: Processed(raw, d) of the frame
\* of the detector that the samples read off the wire stand for
SpectrumOf(raw, d) == [raw |-> raw, dark |-> d]

\* cal_1, cal_2, cal_3, cal_4 = coefficients only: the four float() calls
\* left out
AcceptsCoefficientsUnchecked(c) == Len(c) = 4

\* cal_1, cal_2, cal_3, cal_4 = coefficients; float(cal_1) ... float(cal_4):
\* no ValueError
AcceptsCoefficients(c) == Len(c) = 4 /\ \A i \in 1..4 : IsNumber(c[i])

\* except socket.error: socket.timeout is a socket.error, ValueError and
\* AttributeError are not
Caught(err) == err \in {"socket.error", "socket.timeout"}

\* self.ssl_sock.send(msg): what it raises, "none" on a connected socket
SendError(s) ==
    CASE s = "connected" -> "none"
      [] s = "unset" -> "AttributeError"
      [] OTHER -> "socket.error"

(***************************************************************************)
(* The device: the peer of the connection.  It answers a command with the  *)
(* response of the protocol (spec 6), possibly after some chatter, or     *)
(* not at all.                                                             *)
(***************************************************************************)

Cmd(name, args) == [cmd |-> name, args |-> args]

\* protocol chatter
Noise == <<"#", "#">>

Payload == [i \in 1..(2 * Pixels) |-> IF i % 2 = 1 THEN "A" ELSE "B"]

\* the magic of the response to a command
MagicOf(name) ==
    CASE name = "get_exposure" -> MagicExposure
      [] name = "take_spectrum" -> MagicComplete
      [] name = "get_spectrum" -> MagicSpectrum
      [] name = "get_calibration" -> MagicCalibration
      [] OTHER -> <<>>

\* the payloads the device may put behind the magic
Payloads(name) ==
    CASE name = "get_exposure" -> {<<"5", "2">>}
      [] name = "take_spectrum" -> {<<>>}
      [] name = "get_spectrum" -> {Payload, SubSeq(Payload, 1, 2 * Pixels - 2)}
      [] name = "get_calibration" -> {<<"1", ",", "2", ",", "3", ",", "4">>}
      [] OTHER -> {}

Replies(name) == {MagicOf(name) \o p : p \in Payloads(name)}

\* where the device may cut a response into two records, counted from the
\* end of the magic
CutOffsets == {-1, 1}

\* n records of chatter
Chatter(n) == [i \in 1..n |-> Noise]

\* the records a response travels in: one, one with chatter in front, two,
\* or one behind a run of chatter records (the frame is ready when
\* get_spectrum comes: no such run ahead of spectrum:)
Records(name, r) ==
    {<<r>>, <<Noise \o r>>}
    \cup (IF name = "get_spectrum" THEN {} ELSE {Chatter(MaxChatter) \o <<r>>})
    \cup {<<SubSeq(r, 1, Len(MagicOf(name)) + c), SubSeq(r, Len(MagicOf(name)) + c + 1, Len(r))>> :
             c \in {x \in CutOffsets : Len(MagicOf(name)) + x < Len(r)}}

\* the device writes nothing
NoAnswer == <<<<>>, <<>>>>

\* what the device may write on a command: <<records, response>>, or
\* nothing at all
Answers(name) ==
    {NoAnswer} \cup
    UNION {{<<recs, r>> : recs \in Records(name, r)} : r \in Replies(name)}

(***************************************************************************)
(* Results of calls                                                        *)
(***************************************************************************)

NoResult == [how |-> "none", err |-> "none", val |-> <<>>, printed |-> "none"]
Returned(v) == [how |-> "returned", err |-> "none", val |-> v, printed |-> "none"]
Raised(e) == [how |-> "raised", err |-> e, val |-> <<>>, printed |-> "none"]
\* open() caught e: print("Error: ..."), and the call returns None
Printed(e) == [how |-> "returned", err |-> "none", val |-> <<>>, printed |-> e]
NoRm == [how |-> "none", val |-> <<>>, magic |-> <<>>, took |-> 0, from |-> 0]

\* the origin of records written in answer to a command of call n
From(records, n) == [i \in 1..Len(records) |-> n]

ZeroFrame == [len |-> DarkLen, fill |-> 0]

\* the frames given to the dark setter
DarkArgs == {[len |-> n, fill |-> 10] : n \in {DarkLen - 1, DarkLen, DarkLen + 1}}

ExposureArgs == {10}

\* the pixel indices given to px_to_wavelength
PixelIndices == 0..MaxIdx

\* a raw frame of the detector: g in the bias band 17..29, with skew k around
\* its middle and b more in its first sample; o in the optical band 32..3679,
\* with a ripple r; a value found in no band elsewhere
RawFrame(g, k, b, o, r) ==
    [i \in 1..RawLen |->
        IF i - 1 \in 17..29 THEN g + k * (i - 1 - 23) + (IF i - 1 = 17 THEN b ELSE 0)
        ELSE IF i - 1 \in 32..3679 THEN o + r * ((i - 1) % 7)
        ELSE 60000]

\* the raw frames spectrum() is applied to
RawFrames ==
    {RawFrame(100, k, b, o, r) : k \in {0, 1}, b \in {0, 1}, o \in {0, 150}, r \in {0, 1}}

\* the calibrations px_to_wavelength and wavelengths are applied to
Calibrations ==
    {<<0, 0, 1, 0>>, <<1, 2, 3, 4>>, <<4, 3, 2, 1>>, <<2, 0, 0, 5>>, <<0, -1, 2, 300>>, <<1>>}

\* the dark frames spectrum() is applied to: None, zeros, all 10
DarkFrames == {<<>>, <<ZeroFrame>>, <<[len |-> DarkLen, fill |-> 10]>>}

\* the coefficients given to the calibration setter: four numbers, a text
\* that is no number among them, three values, five values
CoefficientArgs ==
    {<<<<"5">>, <<"6">>, <<"7">>, <<"8">>>>,
     <<<<"5">>, <<"x">>, <<"7">>, <<"8">>>>,
     <<<<"5">>, <<"6">>, <<"7">>, <<"x">>>>,
     <<<<"5">>, <<"6">>, <<"7">>>>,
     <<<<"5">>, <<"6">>, <<"7">>, <<"8">>, <<"9">>>>}

\* no call has been made and nothing is in flight
NoCall ==
    /\ stream = <<>>
    /\ origin = <<>>
    /\ pc = "idle"
    /\ call = "none"
    /\ arg = <<>>
    /\ phase = 0
    /\ magic = <<>>
    /\ strlen = 0
    /\ msg = <<>>
    /\ now = 0
    /\ tstart = 0
    /\ rm_called = 0
    /\ sent = <<>>
    /\ result = NoResult
    /\ rm_ret = NoRm
    /\ rm_first = <<>>
    /\ seen = {}
    /\ answer = NoAnswer
    /\ ncalls = 0

\* __init__(hostname=None), or __init__(hostname) whose open() succeeded
SInit ==
    /\ \/ /\ ssl_sock = "unset"
          /\ sock = "none"
          /\ calibration = <<0, 0, 1, 0>>
          /\ session = "closed"
       \/ /\ ssl_sock = "connected"
          /\ sock = "open"
          /\ calibration = <<1, 2, 3, 4>>
          /\ session = "open"
    /\ dark = <<ZeroFrame>>
    /\ NoCall

\* a call starts: the clock of the call and the history of the call
Begin(name, a) ==
    /\ pc = "idle"
    /\ ncalls < MaxCalls
    /\ ncalls' = ncalls + 1
    /\ call' = name
    /\ arg' = a
    /\ now' = 0
    /\ tstart' = 0
    /\ rm_called' = 0
    /\ msg' = <<>>
    /\ rm_ret' = NoRm
    /\ rm_first' = <<>>
    /\ seen' = {}

\* a call, or a branch of one, that awaits nothing
NoAwait ==
    /\ pc' = "idle"
    /\ magic' = <<>>
    /\ strlen' = 0
    /\ answer' = NoAnswer

\* a call that starts with _send_message(command) and then awaits mg:
\* the send raises, or the command goes out and the receive begins
SendThenAwait(command, mg, len) ==
    IF SendError(ssl_sock) # "none"
    THEN /\ result' = Raised(SendError(ssl_sock))
         /\ sent' = <<>>
         /\ NoAwait
         /\ UNCHANGED <<stream, origin, origin>>
    ELSE /\ \E a \in Answers(command.cmd) :
               /\ stream' = stream \o a[1]
               /\ origin' = origin \o From(a[1], ncalls + 1)
               /\ answer' = a
         /\ sent' = <<command>>
         /\ result' = NoResult
         /\ pc' = "recv_first"
         /\ magic' = mg
         /\ strlen' = len

\* open(hostname, port)
Open ==
    /\ Begin("open", <<>>)
    /\ \E fails \in {"socket", "wrap_socket", "connect", "none"} :
        CASE fails = "socket" ->
                \* socket.socket() is outside the try
                /\ result' = Raised("socket.error")
                /\ sock' = "none"
                /\ NoAwait
                /\ sent' = <<>>
                /\ UNCHANGED <<ssl_sock, stream, origin, session>>
          [] fails = "wrap_socket" ->
                /\ sock' = "closed"
                /\ result' = Printed("socket.error")
                /\ NoAwait
                /\ sent' = <<>>
                /\ UNCHANGED <<ssl_sock, stream, origin, session>>
          [] fails = "connect" ->
                /\ ssl_sock' = "unconnected"
                /\ stream' = <<>>
                /\ origin' = <<>>
                /\ session' = "closed"
                /\ sock' = "closed"
                /\ result' = Printed("socket.error")
                /\ NoAwait
                /\ sent' = <<>>
          [] OTHER ->
                \* connected: update_calibration() sends and awaits
                /\ ssl_sock' = "connected"
                /\ sock' = "open"
                /\ session' = "closed"
                /\ \E a \in Answers("get_calibration") :
                       /\ stream' = a[1]
                       /\ origin' = From(a[1], ncalls + 1)
                       /\ answer' = a
                /\ sent' = <<Cmd("get_calibration", <<>>)>>
                /\ result' = NoResult
                /\ pc' = "recv_first"
                /\ magic' = MagicCalibration
                /\ strlen' = DefaultStrlen
    /\ phase' = 0
    /\ UNCHANGED <<dark, calibration>>
    /\ UNCHANGED fvars

\* release()
Release ==
    /\ Begin("release", <<>>)
    /\ IF ssl_sock = "unset"
       THEN /\ result' = Raised("AttributeError")
            /\ UNCHANGED <<ssl_sock, stream, origin>>
       ELSE /\ ssl_sock' = "closed"
            /\ stream' = <<>>
            /\ origin' = <<>>
            /\ result' = Returned(<<>>)
    /\ sent' = <<>>
    /\ NoAwait
    /\ phase' = 0
    /\ session' = "closed"
    /\ UNCHANGED <<sock, dark, calibration>>
    /\ UNCHANGED fvars

\* exposure (getter)
GetExposure ==
    /\ Begin("exposure", <<>>)
    /\ SendThenAwait(Cmd("get_exposure", <<>>), MagicExposure, DefaultStrlen)
    /\ phase' = 0
    /\ UNCHANGED <<ssl_sock, sock, dark, calibration>>
    /\ UNCHANGED session
    /\ UNCHANGED fvars

\* exposure (setter): the command is sent and nothing is awaited
SetExposure ==
    /\ \E e \in ExposureArgs :
        /\ Begin("set_exposure", <<e>>)
        /\ IF SendError(ssl_sock) # "none"
           THEN /\ result' = Raised(SendError(ssl_sock))
                /\ sent' = <<>>
           ELSE /\ sent' = <<Cmd("set_exposure", <<e>>)>>
                /\ result' = Returned(<<>>)
    /\ NoAwait
    /\ phase' = 0
    /\ UNCHANGED <<ssl_sock, sock, stream, origin, dark, calibration>>
    /\ UNCHANGED session
    /\ UNCHANGED fvars

\* raw_spectrum() that sets self._dark to None on its way
RawSpectrumClearsDark ==
    /\ Begin("raw_spectrum", <<>>)
    /\ SendThenAwait(Cmd("take_spectrum", <<>>), MagicComplete, DefaultStrlen)
    /\ phase' = 1
    /\ dark' = <<>>
    /\ UNCHANGED <<ssl_sock, sock, calibration>>
    /\ UNCHANGED session
    /\ UNCHANGED fvars

\* raw_spectrum(): take_spectrum, then the wait for spectrum_complete
RawSpectrum ==
    /\ Begin("raw_spectrum", <<>>)
    /\ SendThenAwait(Cmd("take_spectrum", <<>>), MagicComplete, DefaultStrlen)
    /\ phase' = 1
    /\ UNCHANGED <<ssl_sock, sock, dark, calibration>>
    /\ UNCHANGED session
    /\ UNCHANGED fvars

\* spectrum(): raw_spectrum(), then the arithmetic on what it returns
Spectrum ==
    /\ Begin("spectrum", <<>>)
    /\ SendThenAwait(Cmd("take_spectrum", <<>>), MagicComplete, DefaultStrlen)
    /\ phase' = 1
    /\ UNCHANGED <<ssl_sock, sock, dark, calibration>>
    /\ UNCHANGED session
    /\ UNCHANGED fvars

\* update_calibration()
UpdateCalibration ==
    /\ Begin("update_calibration", <<>>)
    /\ SendThenAwait(Cmd("get_calibration", <<>>), MagicCalibration, DefaultStrlen)
    /\ phase' = 0
    /\ UNCHANGED <<ssl_sock, sock, dark, calibration>>
    /\ UNCHANGED session
    /\ UNCHANGED fvars

\* calibration (setter): the unpacking and the float() calls, then set_cal
\* is sent and update_calibration() sends get_calibration and awaits
SetCalibration ==
    /\ \E c \in CoefficientArgs :
        /\ Begin("calibration", <<c>>)
        /\ IF ~AcceptsCoefficients(c)
           THEN /\ result' = Raised("ValueError")
                /\ sent' = <<>>
                /\ NoAwait
                /\ UNCHANGED <<stream, origin, origin>>
           ELSE IF SendError(ssl_sock) # "none"
           THEN /\ result' = Raised(SendError(ssl_sock))
                /\ sent' = <<>>
                /\ NoAwait
                /\ UNCHANGED <<stream, origin, origin>>
           ELSE /\ \E a \in Answers("get_calibration") :
                      /\ stream' = stream \o a[1]
                      /\ origin' = origin \o From(a[1], ncalls + 1)
                      /\ answer' = a
                /\ sent' = <<Cmd("set_cal", c), Cmd("get_calibration", <<>>)>>
                /\ result' = NoResult
                /\ pc' = "recv_first"
                /\ magic' = MagicCalibration
                /\ strlen' = DefaultStrlen
    /\ phase' = 0
    /\ UNCHANGED <<ssl_sock, sock, dark, calibration>>
    /\ UNCHANGED session
    /\ UNCHANGED fvars

\* dark (setter)
SetDark ==
    /\ \E frame \in DarkArgs :
        /\ Begin("dark", <<frame>>)
        /\ dark' = IF AcceptsDark(frame) THEN <<frame>> ELSE dark
        /\ result' = Returned(<<>>)
    /\ sent' = <<>>
    /\ NoAwait
    /\ phase' = 0
    /\ UNCHANGED <<ssl_sock, sock, stream, origin, calibration>>
    /\ UNCHANGED session
    /\ UNCHANGED fvars

\* reset_dark()
ResetDark ==
    /\ Begin("reset_dark", <<>>)
    /\ dark' = <<>>
    /\ result' = Returned(<<>>)
    /\ sent' = <<>>
    /\ NoAwait
    /\ phase' = 0
    /\ UNCHANGED <<ssl_sock, sock, stream, origin, calibration>>
    /\ UNCHANGED session
    /\ UNCHANGED fvars

\* px_to_wavelength(idx)
PxToWavelength ==
    /\ \E idx \in PixelIndices :
        /\ Begin("px_to_wavelength", <<idx>>)
        /\ result' = Returned(<<Wavelength(calibration, idx)>>)
    /\ sent' = <<>>
    /\ NoAwait
    /\ phase' = 0
    /\ UNCHANGED <<ssl_sock, sock, stream, origin, dark, calibration>>
    /\ UNCHANGED session
    /\ UNCHANGED fvars

\* wavelengths
Wavelengths ==
    /\ Begin("wavelengths", <<>>)
    /\ result' = Returned(<<WavelengthArray(calibration)>>)
    /\ sent' = <<>>
    /\ NoAwait
    /\ phase' = 0
    /\ UNCHANGED <<ssl_sock, sock, stream, origin, dark, calibration>>
    /\ UNCHANGED session
    /\ UNCHANGED fvars

\* the arithmetic of spectrum() on the raw frame raw_spectrum() has returned
SpectrumOfRaw ==
    /\ \E raw \in RawFrames :
        /\ Begin("spectrum", <<raw>>)
        /\ result' = Returned(<<Processed(raw, dark)>>)
    /\ sent' = <<>>
    /\ NoAwait
    /\ phase' = 0
    /\ UNCHANGED <<ssl_sock, sock, stream, origin, dark, calibration>>
    /\ UNCHANGED session
    /\ UNCHANGED fvars

\* an exception leaves _receive_message and the call; open() catches a
\* socket.error, prints it and closes the plain socket
Raise(err) ==
    /\ pc' = "idle"
    /\ UNCHANGED session
    /\ IF call = "open" /\ Caught(err)
       THEN /\ sock' = "closed"
            /\ result' = Printed(err)
       ELSE /\ result' = Raised(err)
            /\ UNCHANGED sock

\* _receive_message has returned m, rest is still unread: the caller goes on
Resume(m, rest, rest_from) ==
    CASE call = "exposure" ->
            /\ result' = IF IsNumber(ExposureText(m))
                         THEN Returned(<<Number(ExposureText(m))>>)
                         ELSE Raised("ValueError")
            /\ pc' = "idle"
            /\ stream' = rest
            /\ origin' = rest_from
            /\ UNCHANGED <<phase, magic, strlen, sent, calibration, answer, sock, rm_called, session>>
      [] call \in {"raw_spectrum", "spectrum"} /\ phase = 1 ->
            \* _send_message(b'get_spectrum\r\n'), then the wait for spectrum:
            /\ \E a \in Answers("get_spectrum") :
                   /\ stream' = rest \o a[1]
                   /\ origin' = rest_from \o From(a[1], ncalls)
                   /\ answer' = a
            /\ sent' = Append(sent, Cmd("get_spectrum", <<>>))
            /\ phase' = 2
            /\ magic' = MagicSpectrum
            /\ strlen' = SpectrumStrlen
            /\ pc' = "recv_first"
            /\ rm_called' = now'
            /\ UNCHANGED <<result, calibration, sock, session>>
      [] call \in {"raw_spectrum", "spectrum"} /\ phase = 2 ->
            /\ result' = IF ~FitsBuffer(SpectrumBytes(m), Pixels)
                         THEN Raised("ValueError")
                         ELSE IF call = "raw_spectrum"
                         THEN Returned(Frombuffer(SpectrumBytes(m), Pixels))
                         ELSE Returned(<<SpectrumOf(Frombuffer(SpectrumBytes(m), Pixels), dark)>>)
            /\ pc' = "idle"
            /\ stream' = rest
            /\ origin' = rest_from
            /\ UNCHANGED <<phase, magic, strlen, sent, calibration, answer, sock, rm_called, session>>
      [] OTHER ->
            \* update_calibration, called by the user, by the calibration
            \* setter or by open(), which does not catch its ValueError
            /\ IF \A i \in 1..Len(CalibrationFields(m)) : IsNumber(CalibrationFields(m)[i])
               THEN /\ calibration' = Coefficients(CalibrationFields(m))
                    /\ result' = Returned(<<>>)
                    /\ session' = IF call = "open" THEN "open" ELSE session
               ELSE /\ result' = Raised("ValueError")
                    /\ UNCHANGED <<calibration, session>>
            /\ pc' = "idle"
            /\ stream' = rest
            /\ origin' = rest_from
            /\ UNCHANGED <<phase, magic, strlen, sent, answer, sock, rm_called>>

\* ssl_sock.recv(n): the bytes of one record, n of them at most
RecvBytes(records, n) == Slice(records[1], 0, n)

\* what stays unread after ssl_sock.recv(n)
RecvRest(records, n) ==
    IF Len(records[1]) > n
    THEN <<SliceFrom(records[1], n)>> \o Tail(records)
    ELSE Tail(records)

\* one recv that returns after d seconds, and the loop test that follows it
Chunk(d, first) ==
    LET m == RecvBytes(stream, strlen)
        rest == RecvRest(stream, strlen)
        rest_from == IF Len(rest) = Len(stream) THEN origin ELSE Tail(origin)
        t == now + d
        t0 == IF first THEN t ELSE tstart
    IN  /\ msg' = m
        /\ now' = t
        /\ tstart' = t0
        /\ rm_first' = IF first THEN m ELSE rm_first
        /\ seen' = IF Contains(m, magic) THEN seen \cup {magic} ELSE seen
        /\ IF KeepsWaiting(m, magic, t - t0)
           THEN /\ pc' = "recv_loop"
                /\ stream' = rest
                /\ origin' = rest_from
                /\ rm_ret' = NoRm
                /\ UNCHANGED <<phase, magic, strlen, sent, result, calibration,
                               answer, sock, rm_called, session>>
           ELSE /\ rm_ret' = [how |-> "returned", val |-> m, magic |-> magic,
                           took |-> t - rm_called, from |-> origin[1]]
                /\ Resume(m, rest, rest_from)

\* msg = self.ssl_sock.recv(strlen); tstart = time.time(); the loop test
ReceiveFirst ==
    /\ pc = "recv_first"
    /\ stream # <<>>
    /\ \E d \in RecvDelays : Chunk(d, TRUE)
    /\ UNCHANGED <<ssl_sock, dark, call, arg, ncalls>>
    /\ UNCHANGED fvars

\* msg = self.ssl_sock.recv(strlen) in the loop; the loop test
ReceiveAgain ==
    /\ pc = "recv_loop"
    /\ stream # <<>>
    /\ \E d \in RecvDelays : Chunk(d, FALSE)
    /\ UNCHANGED <<ssl_sock, dark, call, arg, ncalls>>
    /\ UNCHANGED fvars

\* recv with nothing to read: socket.timeout after the socket's timeout
ReceiveTimesOut ==
    /\ pc \in {"recv_first", "recv_loop"}
    /\ stream = <<>>
    /\ now' = now + Ticks(SockTimeout)
    /\ rm_ret' = [how |-> "raised", val |-> <<>>, magic |-> magic,
                  took |-> now + Ticks(SockTimeout) - rm_called, from |-> 0]
    /\ Raise("socket.timeout")
    /\ UNCHANGED <<ssl_sock, stream, origin, dark, calibration, call, arg, phase, magic, strlen,
                   msg, tstart, rm_called, sent, rm_first, seen, answer, ncalls>>
    /\ UNCHANGED fvars

SNext ==
    \/ Open \/ Release \/ GetExposure \/ SetExposure \/ RawSpectrum \/ Spectrum
    \/ UpdateCalibration \/ SetCalibration \/ SetDark \/ ResetDark
    \/ PxToWavelength \/ Wavelengths
    \/ ReceiveFirst \/ ReceiveAgain \/ ReceiveTimesOut

\* no find_devices call runs beside the session
FdIdle ==
    /\ fd_pc = "none"
    /\ find_first = FALSE
    /\ sock_timeout = 0
    /\ search_timeout = 0
    /\ udp_sock = "closed"
    /\ fd_now = 0
    /\ spectrometers = {}
    /\ fd_error = "none"
    /\ received = {}
    /\ nrecv = 0
    /\ last_rx = <<>>
    /\ prev_set = {}

\* no session beside a find_devices call
SIdle == SInit /\ ssl_sock = "unset"

FdNext == FdWindowElapsed \/ FdRecvDatagram \/ FdRecvTimeout

Init == SInit /\ FdIdle

Spec == Init /\ [][SNext]_vars

InitFind == FdInit /\ SIdle

\* an object that is not connected, with a calibration and a dark frame
InitMath ==
    /\ FdIdle
    /\ ssl_sock = "unset"
    /\ sock = "none"
    /\ session = "closed"
    /\ calibration \in Calibrations
    /\ dark \in DarkFrames
    /\ NoCall

\* the calls that compute without the device
MathNext == PxToWavelength \/ Wavelengths \/ SpectrumOfRaw

SpecMath == InitMath /\ [][MathNext]_vars

SpecFind == InitFind /\ [][FdNext]_vars

(***************************************************************************)
(* What the specification says of a datagram, stated on the bytes and not  *)
(* through split: a valid announcement starts with the marker and holds at *)
(* least one comma; I runs from the marker to the first comma, S from      *)
(* there to the next comma or the end.                                     *)
(***************************************************************************)

StartsWithMarker(data) ==
    /\ Len(data) >= Len(Marker)
    /\ \A i \in 1..Len(Marker) : data[i] = Marker[i]

CommaAt(data) == {i \in 1..Len(data) : data[i] = ","}

ValidAnnouncement(data) == StartsWithMarker(data) /\ CommaAt(data) # {}

Malformed(data) == ~ValidAnnouncement(data)

FirstComma(data) == CHOOSE i \in CommaAt(data) : \A j \in CommaAt(data) : i <= j

FieldEnd(data) ==
    LET later == {i \in CommaAt(data) : i > FirstComma(data)}
    IN  IF later = {} THEN Len(data) + 1
        ELSE CHOOSE i \in later : \A j \in later : i <= j

Triple(rx) ==
    LET data == rx[2] IN
    <<rx[1],
      SubSeq(data, Len(Marker) + 1, FirstComma(data) - 1),
      SubSeq(data, FirstComma(data) + 1, FieldEnd(data) - 1)>>

FdDone == fd_pc \in {"returned", "raised"}

\* C5: a malformed datagram (no marker at offset 0, or the marker and fewer
\* than two comma-delimited fields) is discarded: handling it leaves the
\* result set unchanged, raises nothing and leaves the loop running.
C5_MalformedDiscarded ==
    [][(nrecv' = nrecv + 1 /\ Malformed(last_rx'[2]))
         => (spectrometers' = spectrometers /\ fd_error' = "none" /\ fd_pc' = "loop")]_vars

\* C6: every call to find_devices returns, with a result set, no later than
\* search_timeout plus one sock_timeout after it was called.
C6_ReturnsWithinBound ==
    /\ fd_pc = "loop" => fd_now < search_timeout + sock_timeout
    /\ FdDone => (fd_pc = "returned" /\ fd_now <= search_timeout + sock_timeout)

\* C7: on every path by which find_devices finishes (the window elapsed, the
\* find_first exit, a receive that timed out), the discovery socket is closed
\* before control is back with the caller.
C7_SocketClosedOnFinish ==
    (FdDone /\ fd_error \in {"none", "timeout"}) => udp_sock = "closed"

\* C8: the set find_devices returns is exactly the set of triples
\* (address, I, S) of the valid announcements received during the call.
C8_ResultIsValidTriples ==
    fd_pc = "returned" =>
        spectrometers = {Triple(rx) : rx \in {r \in received : ValidAnnouncement(r[2])}}

\* a call that returned announcements although it also received traffic
\* that is no announcement
C8_Witness ==
    /\ fd_pc = "returned"
    /\ spectrometers # {}
    /\ \E r \in received : Malformed(r[2])
    /\ \E r \in received : ValidAnnouncement(r[2]) /\ Len(Triple(r)[2]) > 0 /\ Len(Triple(r)[3]) > 0

\* C9: with find_first, the first valid announcement ends the call: nothing
\* is received after it and the set holds exactly that one entry, and only a
\* valid announcement ends the call before the window has elapsed; without
\* find_first the call returns only once the window has elapsed.
C9_FindFirst ==
    /\ (find_first /\ spectrometers # {}) =>
          /\ fd_pc = "returned"
          /\ prev_set = {}
          /\ spectrometers = {Triple(last_rx)}
          /\ Cardinality(spectrometers) = 1
    /\ (find_first /\ fd_pc = "returned" /\ fd_now < search_timeout) =>
          /\ last_rx # <<>>
          /\ ValidAnnouncement(last_rx[2])
    /\ (~find_first /\ fd_pc = "returned") => fd_now >= search_timeout

\* a find_first call that skipped foreign traffic and then returned early on
\* the first valid announcement
C9_Witness ==
    /\ find_first
    /\ fd_pc = "returned"
    /\ fd_now < search_timeout
    /\ nrecv = 2
    /\ Cardinality(spectrometers) = 1

(***************************************************************************)
(* Claims about the session                                                *)
(***************************************************************************)

\* C1: _receive_message(marker) never returns a chunk without the marker:
\* when no chunk with the marker arrives in time, the call ends in an error.
C1_TimeoutIsAnError ==
    rm_ret.how = "returned" => Contains(rm_ret.val, rm_ret.magic)

\* the device answered get_spectrum with the full frame in two records, the
\* magic and a part of the payload in the first, and the call has ended
SplitInTwo ==
    /\ call = "raw_spectrum" /\ pc = "idle" /\ phase = 2
    /\ answer[2] = MagicSpectrum \o Payload
    /\ Len(answer[1]) = 2
    /\ Len(answer[1][1]) > Len(MagicSpectrum)
    /\ OccursAt(answer[1][1], MagicSpectrum, 0)
    /\ rm_first = answer[1][1]

\* C2: a spectrum: response that arrives in two chunks (magic and a part of
\* the payload, then the rest) is returned by _receive_message whole, and
\* raw_spectrum decodes all its samples.
C2_SplitResponseReassembled ==
    SplitInTwo =>
        /\ rm_ret.how = "returned"
        /\ rm_ret.val = answer[2]
        /\ result.how = "returned"
        /\ result.val = Frombuffer(Payload, Pixels)

\* C3: raw_spectrum sends take_spectrum, then get_spectrum, and get_spectrum
\* only after a chunk with spectrum_complete has been received in the call.
C3_GetAfterComplete ==
    call = "raw_spectrum" =>
        /\ sent \in {<<>>,
                     <<Cmd("take_spectrum", <<>>)>>,
                     <<Cmd("take_spectrum", <<>>), Cmd("get_spectrum", <<>>)>>}
        /\ Len(sent) = 2 => MagicComplete \in seen

\* an open() that has ended and did not get through
OpenFailed ==
    /\ call = "open" /\ pc = "idle"
    /\ result.how = "raised" \/ result.printed # "none"

\* C4: a failed open() is reported to the caller as an error, its socket is
\* closed and the object holds no usable connection.
C4_FailedOpenLeavesClosed ==
    OpenFailed =>
        /\ result.how = "raised"
        /\ sock # "open"
        /\ ssl_sock # "connected"

\* C10: assigning a dark frame whose length is not 3648 ends in an error.
C10_BadDarkRejected ==
    (call = "dark" /\ pc = "idle" /\ arg[1].len # DarkLen) => result.how = "raised"

\* four values, each a run of decimal digits
NumericFour(c) ==
    /\ Len(c) = 4
    /\ \A i \in 1..4 : c[i] # <<>> /\ \A k \in 1..Len(c[i]) : c[i][k] \in DOMAIN DigitVal

\* C11: the calibration setter, given coefficients that are not four numbers,
\* fails before it sends anything: no set_cal or get_calibration goes out and
\* the stored coefficients stay as they were.
C11_InvalidCoefficientsRejected ==
    [][(ncalls' = ncalls + 1 /\ call' = "calibration" /\ ~NumericFour(arg'[1]))
         => (/\ pc' = "idle"
             /\ result'.how = "raised"
             /\ sent' = <<>>
             /\ stream' = stream
             /\ calibration' = calibration)]_vars

C11_Witness ==
    /\ call = "calibration" /\ pc = "idle"
    /\ Len(arg[1]) = 4 /\ ~NumericFour(arg[1])
    /\ ssl_sock = "connected"
    /\ result = Raised("ValueError")
    /\ sent = <<>>

\* the first four comma-separated fields behind the magic of a calibration:
\* response, as numbers
FirstFourFields(response) ==
    LET fields == Split(SubSeq(response, Len(MagicCalibration) + 1, Len(response)), ",")
    IN  [i \in 1..(IF Len(fields) < 4 THEN Len(fields) ELSE 4) |-> Number(fields[i])]

\* C12: when the calibration setter has returned, the stored coefficients are
\* the first four fields of the calibration: response the device sent to the
\* get_calibration of the call, whatever the caller passed in.
C12_StoredIsDeviceEcho ==
    (call = "calibration" /\ pc = "idle" /\ result.how = "returned")
        => calibration = FirstFourFields(answer[2])

\* C17: _receive_message ends, returning or failing, no later than its
\* timeout plus the blocking bound of one recv after it was called.
C17_EndsByDeadline ==
    rm_ret.how # "none" => rm_ret.took <= Ticks(ReceiveTimeout) + Ticks(SockTimeout)

\* the whole 16-bit samples a chunk holds behind the magic
SamplesBehindMagic(m) == (Len(m) - Find(m, MagicSpectrum) - Len(MagicSpectrum)) \div 2

\* raw_spectrum has ended on a chunk with spectrum: and too few samples
ShortPayload ==
    /\ call = "raw_spectrum" /\ pc = "idle" /\ phase = 2
    /\ rm_ret.how = "returned"
    /\ Contains(rm_ret.val, MagicSpectrum)
    /\ SamplesBehindMagic(rm_ret.val) < Pixels

\* C14: raw_spectrum returns exactly 3694 samples or ends in an error; on a
\* payload of fewer samples behind spectrum: it fails.
C14_ShortPayloadFails ==
    /\ (call = "raw_spectrum" /\ pc = "idle" /\ result.how = "returned")
          => Len(result.val) = Pixels
    /\ ShortPayload => result.how = "raised"

\* C18: the chunk _receive_message returns with the magic in it has the magic
\* at offset 0, so the callers' msg[9:] and [12:] cut off the magic and nothing
\* else.
C18_MagicAtOffsetZero ==
    (rm_ret.how = "returned" /\ Contains(rm_ret.val, rm_ret.magic))
        => Find(rm_ret.val, rm_ret.magic) = 0

\* C19: the value the exposure getter, update_calibration or raw_spectrum
\* returns comes from a response to a command of the same call, never from a
\* response to an earlier command that was still unread.
C19_NoStaleResponse ==
    (call \in {"exposure", "update_calibration", "raw_spectrum"}
        /\ pc = "idle" /\ result.how = "returned")
        => rm_ret.from = ncalls

\* the calls that send a command to the device
Commands ==
    {"exposure", "set_exposure", "raw_spectrum", "update_calibration", "calibration"}

\* C20: a command issued while the session is closed (never opened, failed
\* to open, released) ends in an error and sends nothing.
C20_NothingSentWhileClosed ==
    [][(ncalls' = ncalls + 1 /\ call' \in Commands /\ session = "closed")
         => (sent' = <<>> /\ pc' = "idle" /\ result'.how = "raised")]_vars

(***************************************************************************)
(* Claims about the arithmetic                                             *)
(***************************************************************************)

\* d + c*i + b*i^2 + a*i^3 for the coefficients (a, b, c, d)
Cubic(cal, i) == cal[4] + cal[3] * i + cal[2] * i * i + cal[1] * i * i * i

\* C13: with four stored coefficients (a, b, c, d), px_to_wavelength(i) is
\* d + c*i + b*i^2 + a*i^3; wavelengths has 3648 entries, entry i being
\* px_to_wavelength(i); with the coefficients (0, 0, 1, 0) the mapping is the
\* identity.
C13_WavelengthPolynomial ==
    /\ (call = "px_to_wavelength" /\ pc = "idle" /\ Len(calibration) = 4)
          => /\ result.how = "returned"
             /\ result.val[1] = Cubic(calibration, arg[1])
             /\ calibration = <<0, 0, 1, 0>> => result.val[1] = arg[1]
    /\ (call = "wavelengths" /\ pc = "idle" /\ Len(calibration) = 4)
          => /\ result.how = "returned"
             /\ result.val[1].len = 3648
             /\ \A i \in PixelIndices : EntryOf(result.val[1], i) = Cubic(calibration, i)

C13_Witness ==
    /\ call = "px_to_wavelength" /\ pc = "idle"
    /\ calibration = <<1, 2, 3, 4>>
    /\ arg = <<2>>
    /\ result.val = <<26>>

\* the sum of the samples 17..29 of a raw frame (0-based)
GuardTotal(raw) ==
    raw[18] + raw[19] + raw[20] + raw[21] + raw[22] + raw[23] + raw[24]
    + raw[25] + raw[26] + raw[27] + raw[28] + raw[29] + raw[30]

\* what the dark frame takes off a value: nothing when there is none
DarkTerm == IF dark = <<>> THEN 0 ELSE dark[1].fill

\* C15: spectrum() on a raw frame of 3694 samples returns 3648 values, value
\* i = raw[32+i] - mean(raw[17..29]) - dark[i], without the dark term when no
\* dark frame is set and without clamping at zero; a bias band averaging 100
\* and an optical band of 150 give 50 throughout, and 40 with a dark of 10.
\* (Values are numerators over 13, the number of samples in the bias band.)
C15_BiasAndDarkSubtracted ==
    (call = "spectrum" /\ pc = "idle" /\ Len(arg) = 1)
        => LET raw == arg[1]
               out == result.val[1]
               total == GuardTotal(raw)
           IN  /\ result.how = "returned"
               /\ out.den = 13
               /\ Len(out.num) = 3648
               /\ \A i \in 0..3647 :
                      out.num[i + 1] = 13 * raw[32 + i + 1] - total - 13 * DarkTerm
               /\ (total = 13 * 100 /\ \A i \in 0..3647 : raw[32 + i + 1] = 150)
                      => \A i \in 0..3647 :
                             out.num[i + 1] = 13 * (IF DarkTerm = 10 THEN 40 ELSE 50)

\* a frame with values below zero, under a dark frame of 10
C15_Witness ==
    /\ call = "spectrum" /\ pc = "idle" /\ Len(arg) = 1
    /\ Len(arg[1]) = 3694
    /\ dark # <<>> /\ dark[1].fill = 10
    /\ arg[1][33] = 0
    /\ result.val[1].num[1] < 0

\* C16: raw_spectrum, spectrum, the exposure getter and setter,
\* px_to_wavelength and wavelengths leave the dark frame and the calibration
\* as they are: the dark frame changes only in a dark assignment or
\* reset_dark, the calibration only in update_calibration (open() calls it)
\* or the calibration setter.
C16_DarkAndCalibrationKept ==
    [][/\ call' \in {"raw_spectrum", "spectrum", "exposure", "set_exposure",
                     "px_to_wavelength", "wavelengths"}
            => (dark' = dark /\ calibration' = calibration)
       /\ dark' # dark => call' \in {"dark", "reset_dark"}
       /\ calibration' # calibration
            => call' \in {"update_calibration", "calibration", "open"}]_vars

\* a spectrum taken after a dark frame was set
C16_Witness ==
    /\ call = "spectrum" /\ pc = "idle"
    /\ result.how = "returned"
    /\ dark # <<>> /\ dark[1].fill = 10
    /\ ncalls = 2

====
